---- MODULE Spec2Model ----
(***************************************************************************)
(* Model of Skim's asynchronous port scanner (Script/Port_Scanner.py):     *)
(* main() pings the target, constructs a PortScanner (validate_input),     *)
(* and runs scan(), which creates one scan_task per port under an          *)
(* asyncio.Semaphore, joins them with gather and calls finalize_scan and   *)
(* generate_report.  Every await of the program is one step of the model;  *)
(* the code between two awaits of a coroutine runs atomically, as it does  *)
(* on the asyncio event loop.                                              *)
(***************************************************************************)
EXTENDS Integers, Sequences, FiniteSets, TLC

(* ------------------------------ bounds -------------------------------- *)
\* longest port range given on the command line
MaxPorts == 2
\* largest --concurrency value given on the command line
MaxConc == 2
\* longest scan, in ticks of datetime.now()
MaxClock == 1
\* lowest port of the modelled command lines (port 20 has no table entry)
LowPort == 20

(* ------------------------- program constants -------------------------- *)
max_retries == 2

top_common_ports ==
    <<21, 22, 23, 25, 53, 80, 110, 135, 139, 143, 443,
      445, 993, 995, 1723, 3306, 3389, 5900, 8080>>

\* time.monotonic() - start_time of test_port: a float the program only stores
elapsed == "elapsed"

(* Optional[T]: None is the empty tuple, a present value v is <<v>>. *)
None == <<>>
Some(v) == <<v>>

(* ----------------------------- exceptions ----------------------------- *)
(* An exception is its class and the words of str(e). *)
Exc(cls, msg) == [cls |-> cls, msg |-> msg]

ConnectionRefusedError == Exc("ConnectionRefusedError", <<"[Errno 111]", "Connection refused">>)
TimeoutError == Exc("TimeoutError", <<>>)
TooManyFiles == Exc("OSError", <<"[Errno 24]", "Too many open files">>)
Unreachable == Exc("OSError", <<"[Errno 101]", "Network is unreachable">>)
ConnectionResetError == Exc("ConnectionResetError", <<"[Errno 104]", "Connection reset by peer">>)
UnicodeError == Exc("UnicodeError", <<"label empty or too long">>)

\* the exception is errno 24, EMFILE: the process is out of file descriptors
is_emfile(e) == e.msg # <<>> /\ e.msg[1] = "[Errno 24]"

\* what asyncio.open_connection under wait_for can raise
ConnectErrors ==
    {ConnectionRefusedError, TimeoutError, TooManyFiles, Unreachable, UnicodeError}

\* what writer.close() / writer.wait_closed() can raise
CloseErrors == {ConnectionResetError}

\* the classes derived from OSError among the modelled ones
OSErrorClasses == {"OSError", "ConnectionRefusedError", "ConnectionResetError"}

\* the classes derived from Exception among the modelled ones
ExceptionClasses == OSErrorClasses \cup {"TimeoutError", "UnicodeError"}

\* the except clauses without the last one, `except Exception`
except_clause_no_catch_all(e) ==
    IF e.cls \in {"ConnectionRefusedError", "TimeoutError"} THEN "continue"
    ELSE IF e.cls \in OSErrorClasses
         THEN IF \E i \in DOMAIN e.msg : e.msg[i] = "Too many open files"
              THEN "sleep" ELSE "continue"
    ELSE "propagate"

\* test_port's except clauses, first match wins: "continue", "sleep" (sleep
\* one second, then continue) or "propagate" (no clause matches)
except_clause(e) ==
    IF e.cls \in {"ConnectionRefusedError", "TimeoutError"} THEN "continue"
    ELSE IF e.cls \in OSErrorClasses
         THEN IF \E i \in DOMAIN e.msg : e.msg[i] = "Too many open files"
              THEN "sleep" ELSE "continue"
    ELSE IF e.cls \in ExceptionClasses THEN "continue"
    ELSE "propagate"

(* ------------------------- banners and services ----------------------- *)
\* bytes that decode(errors='ignore') drops
InvalidBytes == {"xFF"}
\* characters that str.strip() removes
Whitespace == {" ", "LF"}

\* what a peer can answer to a banner probe (non-empty byte strings)
Responses ==
    { <<"xFF", "S", "S", "H", "-", "2", "LF">>,
      <<" ", "LF">> }

decode(bytes) == SelectSeq(bytes, LAMBDA b : b \notin InvalidBytes)

RECURSIVE lstrip(_)
lstrip(s) == IF s # <<>> /\ Head(s) \in Whitespace THEN lstrip(Tail(s)) ELSE s

RECURSIVE rstrip(_)
rstrip(s) ==
    IF s # <<>> /\ s[Len(s)] \in Whitespace
    THEN rstrip(SubSeq(s, 1, Len(s) - 1)) ELSE s

strip(s) == rstrip(lstrip(s))

lower_char(c) ==
    CASE c = "S" -> "s" [] c = "H" -> "h" [] c = "T" -> "t" [] c = "P" -> "p"
      [] c = "M" -> "m" [] OTHER -> c

lower(s) == [i \in DOMAIN s |-> lower_char(s[i])]

\* Python's `sub in s` on strings
contains(s, sub) ==
    \E i \in 1..(Len(s) - Len(sub) + 1) : SubSeq(s, i, i + Len(sub) - 1) = sub

\* dict.get(port) on detect_service's table
port_services(port) ==
    CASE port = 21 -> Some("FTP") [] port = 22 -> Some("SSH")
      [] port = 23 -> Some("Telnet") [] port = 25 -> Some("SMTP")
      [] port = 53 -> Some("DNS") [] port = 80 -> Some("HTTP")
      [] port = 110 -> Some("POP3") [] port = 143 -> Some("IMAP")
      [] port = 443 -> Some("HTTPS") [] port = 3306 -> Some("MySQL")
      [] port = 3389 -> Some("RDP") [] port = 5900 -> Some("VNC")
      [] port = 8080 -> Some("HTTP-Proxy") [] OTHER -> None

\* a classification that looks at the port table first
detect_service_port_first(port, banner) ==
    IF port_services(port) # None THEN port_services(port)
    ELSE IF banner # None /\ banner[1] # <<>>
    THEN LET banner_lower == lower(banner[1]) IN
         IF contains(banner_lower, <<"s", "s", "h">>) THEN Some("SSH")
         ELSE IF contains(banner_lower, <<"h", "t", "t", "p">>) THEN Some("HTTP")
         ELSE IF contains(banner_lower, <<"s", "m", "t", "p">>) THEN Some("SMTP")
         ELSE None
    ELSE None

\* banner is Optional[str]; `if banner` is false for None and for ""
detect_service(port, banner) ==
    IF banner # None /\ banner[1] # <<>>
    THEN LET banner_lower == lower(banner[1]) IN
         IF contains(banner_lower, <<"s", "s", "h">>) THEN Some("SSH")
         ELSE IF contains(banner_lower, <<"h", "t", "t", "p">>) THEN Some("HTTP")
         ELSE IF contains(banner_lower, <<"s", "m", "t", "p">>) THEN Some("SMTP")
         ELSE port_services(port)
    ELSE port_services(port)

\* the probes grab_banner sends, in order
probes == <<"HEAD", "GET", "CRLF", "HELP">>

\* what check_ssl builds after a handshake: under verify_mode = CERT_NONE
\* get_extra_info('peercert') is the empty dict, so 'cert' stays None
SslInfos ==
    { [version |-> "TLSv1.3", cipher |-> "TLS_AES_256_GCM_SHA384", cert |-> None] }

(* ------------------------------- state -------------------------------- *)
VARIABLES
    args,            \* parse_args(): target, ports, concurrency, output
    mainPc,          \* where main() is: ping, construct, scan, gather, done
    exit_status,     \* how main() ended
    ports,           \* self.ports
    results,         \* self.results
    scan_stats,      \* self.scan_stats
    semaphore,       \* value of the asyncio.Semaphore of scan()
    tasks,           \* tasks[i]: the scan_task coroutine of ports[i]
    console,         \* rows printed by generate_report (Optional)
    output_state,    \* state of the output file
    finalize_calls,  \* number of calls of finalize_scan so far (history)
    arrival,         \* ports in the order their results were appended (history)
    call             \* a call of detect_service on its own: arguments, result

vars == <<args, mainPc, exit_status, ports, results, scan_stats,
          semaphore, tasks, console, output_state, finalize_calls, arrival,
          call>>

\* the targets of the modelled command lines: an IP literal, a name that
\* resolves and a name that does not
Targets == {"127.0.0.1", "localhost", "no.such.host.invalid"}

\* list(range(start_port, end_port + 1))
range(a, b) == [i \in 1..(b - a + 1) |-> a + i - 1]

\* main(): the port lists "-p a-b" and "-p a" give, at most MaxPorts long
PortArgs ==
    LET lists == { range(a, b) : a \in LowPort..(LowPort + MaxPorts - 1),
                                 b \in LowPort..(LowPort + MaxPorts - 1) }
    IN  { p \in lists : p # <<>> }

\* self.ports = ports if ports else top_common_ports
scanner_ports(p) == IF p # <<>> THEN p ELSE top_common_ports

\* validate_input: ipaddress.ip_address(target) accepts the target
is_ip_literal(target) == target \in {"127.0.0.1"}

\* validate_input: socket.gethostbyname(target) resolves the target
resolves(target) == target \in {"127.0.0.1", "localhost"}

\* a validation that swallows the lookup failure
validate_input_accept_all(target) == TRUE

\* validate_input returns (TRUE) or raises (FALSE)
validate_input(target) == is_ip_literal(target) \/ resolves(target)

\* self.scan_stats as __init__ sets it
new_scan_stats(p) ==
    [total_ports |-> Len(p), open_ports |-> 0, start_time |-> None,
     end_time |-> None, duration |-> None]

Scanresult(port) ==
    [port |-> port, is_open |-> FALSE, banner |-> None, service |-> None,
     protocol |-> "TCP", response_time |-> None, ssl_info |-> None]

\* a scan_task coroutine: its position and the locals of test_port; and as
\* history the outcomes of its connect attempts (connect_log), how the last
\* attempt failed (last_fail) and whether asyncio.sleep(1) ran since (slept);
\* open_conns counts the connections the coroutine has open
NewTask(port) ==
    [pc |-> "wait", attempt |-> 0, probe |-> 1,
     result |-> Scanresult(port), ssl_pending |-> None, open_conns |-> 0,
     connect_log |-> <<>>, last_fail |-> "none", slept |-> FALSE]

\* no call of detect_service on its own
NoCall == [port |-> 0, banner |-> None, returned |-> FALSE, service |-> None]

Init ==
    /\ args \in [target : Targets,
                 ports : PortArgs,
                 concurrency : 0..MaxConc,
                 output : {None, Some("out.json")}]
    /\ mainPc = "ping"
    /\ exit_status = "running"
    /\ ports = <<>>
    /\ results = <<>>
    /\ scan_stats = new_scan_stats(<<>>)
    /\ semaphore = 0
    /\ tasks = <<>>
    /\ console = None
    /\ output_state = "absent"
    /\ finalize_calls = 0
    /\ arrival = <<>>
    /\ call = NoCall

(* ------------------------------- main --------------------------------- *)
\* ping_target: subprocess.check_output returns, raises CalledProcessError
\* (caught in ping_target) or raises FileNotFoundError (caught only by main)
PingOutcomes == {"ok", "CalledProcessError", "FileNotFoundError"}

Ping ==
    /\ mainPc = "ping"
    /\ \E o \in PingOutcomes :
         IF o = "FileNotFoundError"
         THEN mainPc' = "done" /\ exit_status' = "critical_failure"
         ELSE mainPc' = "construct" /\ UNCHANGED exit_status
    /\ UNCHANGED <<args, call, ports, results, scan_stats, semaphore, tasks,
                   console, output_state, finalize_calls, arrival>>

\* PortScanner(...): __init__ sets the fields, then validate_input may raise
Construct ==
    /\ mainPc = "construct"
    /\ ports' = scanner_ports(args.ports)
    /\ results' = <<>>
    /\ scan_stats' = new_scan_stats(scanner_ports(args.ports))
    /\ IF validate_input(args.target)
       THEN mainPc' = "scan" /\ UNCHANGED exit_status
       ELSE mainPc' = "done" /\ exit_status' = "configuration_error"
    /\ UNCHANGED <<args, call, semaphore, tasks, console, output_state,
                   finalize_calls, arrival>>

\* a limiter that is given at least one slot
Semaphore_at_least_one(value) == IF value < 1 THEN 1 ELSE value

\* asyncio.Semaphore(self.max_concurrency): the initial value is the
\* argument as it is
Semaphore(value) == value

\* scan() up to gather: start_time, the semaphore, one task per port.
\* Time is counted from this reading of datetime.now().
ScanStart ==
    /\ mainPc = "scan"
    /\ scan_stats' = [scan_stats EXCEPT !.start_time = Some(0)]
    /\ semaphore' = Semaphore(args.concurrency)
    /\ tasks' = [i \in DOMAIN ports |-> NewTask(ports[i])]
    /\ mainPc' = "gather"
    /\ UNCHANGED <<args, call, exit_status, ports, results, console,
                   output_state, finalize_calls, arrival>>

(* ----------------------------- scan_task ------------------------------ *)
\* a limiter that never makes acquire wait
locked_never(value) == FALSE

\* asyncio.Semaphore.locked(): acquire has to wait
locked(value) == value = 0

\* a slot that is not given back
release_forgotten(value) == value

\* Semaphore.release() at the exit of `async with semaphore`
release(value) == value + 1

\* a retry loop that runs one iteration too many
continue_once_more(tk) ==
    IF tk.attempt < max_retries
    THEN [tk EXCEPT !.attempt = @ + 1, !.pc = "connect"]
    ELSE [tk EXCEPT !.attempt = @ + 1, !.pc = "return"]

\* an except clause that falls through into the rest of the loop body
continue_falls_through(tk) == [tk EXCEPT !.pc = "banner"]

\* `continue`: the next iteration of `for attempt in range(max_retries)`,
\* or the end of the loop and `return result`
continue(tk) ==
    IF tk.attempt + 1 < max_retries
    THEN [tk EXCEPT !.attempt = @ + 1, !.pc = "connect"]
    ELSE [tk EXCEPT !.attempt = @ + 1, !.pc = "return"]

\* `break`, then `return result`
break(tk) == [tk EXCEPT !.pc = "return"]

\* an exception raised inside test_port's try block
raise(tk, e) ==
    CASE except_clause(e) = "continue" -> continue(tk)
      [] except_clause(e) = "sleep" -> [tk EXCEPT !.pc = "sleep"]
      [] OTHER -> [tk EXCEPT !.pc = "raise"]

\* a collection that keeps only the latest open result
append_result_overwrites(rs, result) ==
    IF result.is_open THEN <<result>> ELSE rs

\* scan_task after `await self.test_port(port)`: append an open result
append_result(rs, result) ==
    IF result.is_open THEN Append(rs, result) ELSE rs

\* The step of task t ends in tk.  When test_port has returned, the rest of
\* scan_task runs in the same step: the append and the release of the
\* semaphore by `async with`; when it has raised, only the release.
Resume(t, tk) ==
    IF tk.pc = "return"
    THEN /\ tasks' = [tasks EXCEPT ![t] = [tk EXCEPT !.pc = "done"]]
         /\ results' = append_result(results, tk.result)
         /\ arrival' = IF tk.result.is_open
                       THEN Append(arrival, tk.result.port) ELSE arrival
         /\ semaphore' = release(semaphore)
    ELSE IF tk.pc = "raise"
    THEN /\ tasks' = [tasks EXCEPT ![t] = [tk EXCEPT !.pc = "raised"]]
         /\ semaphore' = release(semaphore)
         /\ UNCHANGED <<results, arrival>>
    ELSE /\ tasks' = [tasks EXCEPT ![t] = tk]
         /\ UNCHANGED <<results, arrival, semaphore>>

TaskUnchanged ==
    UNCHANGED <<args, call, mainPc, exit_status, ports, scan_stats, console,
                output_state, finalize_calls>>

\* a close() that leaves the socket open
close_connection_leaks(n) == n

\* writer.close(): the connection is closed when wait_closed() has ended,
\* with or without an exception
close_connection(n) == n - 1

\* `async with semaphore`: waiters are woken in the order they arrived, which
\* is the order the tasks were created in; test_port starts in the same step
Acquire(t) ==
    /\ mainPc = "gather"
    /\ tasks[t].pc = "wait"
    /\ ~locked(semaphore)
    /\ \A u \in 1..(t - 1) : tasks[u].pc # "wait"
    /\ semaphore' = semaphore - 1
    /\ tasks' = [tasks EXCEPT ![t] = [@ EXCEPT !.pc = "connect"]]
    /\ UNCHANGED <<results, arrival>>
    /\ TaskUnchanged

\* await wait_for(open_connection(target, port), timeout)
Connect(t) ==
    /\ mainPc = "gather"
    /\ tasks[t].pc = "connect"
    /\ \E o \in {None} \cup {Some(e) : e \in ConnectErrors} :
         LET tk == tasks[t] IN
         IF o = None
         THEN Resume(t, [tk EXCEPT
                  !.connect_log = Append(@, "ok"),
                  !.last_fail = "none",
                  !.slept = FALSE,
                  !.open_conns = @ + 1,
                  !.result = [@ EXCEPT !.is_open = TRUE,
                                       !.response_time = Some(elapsed)],
                  !.probe = 1,
                  !.pc = "banner"])
         ELSE Resume(t, raise([tk EXCEPT
                  !.connect_log = Append(@, "fail"),
                  !.last_fail = IF is_emfile(o[1]) THEN "exhausted" ELSE "other",
                  !.slept = FALSE], o[1]))
    /\ TaskUnchanged

\* await asyncio.sleep(1) in the OSError clause, then `continue`
Sleep(t) ==
    /\ mainPc = "gather"
    /\ tasks[t].pc = "sleep"
    /\ Resume(t, continue([tasks[t] EXCEPT !.slept = TRUE]))
    /\ TaskUnchanged

\* what one probe of grab_banner ends in: an exception (write, drain, read
\* or timeout), or the bytes read (b'' at end of file)
ProbeOutcomes ==
    {[kind |-> "error", bytes |-> <<>>]}
    \cup {[kind |-> "read", bytes |-> b] : b \in Responses \cup {<<>>}}

\* grab_banner: probe number tk.probe is written and answered; the loop
\* variable goes with grab_banner's frame when it returns
GrabBanner(t) ==
    /\ mainPc = "gather"
    /\ tasks[t].pc = "banner"
    /\ \E o \in ProbeOutcomes :
         LET tk == tasks[t] IN
         IF o.kind = "read" /\ o.bytes # <<>>
         THEN Resume(t, [tk EXCEPT
                  !.result = [@ EXCEPT !.banner = Some(strip(decode(o.bytes)))],
                  !.probe = 1,
                  !.pc = "ssl"])
         ELSE IF tk.probe < Len(probes)
         THEN Resume(t, [tk EXCEPT !.probe = @ + 1])
         ELSE Resume(t, [tk EXCEPT !.result = [@ EXCEPT !.banner = None],
                                   !.probe = 1,
                                   !.pc = "ssl"])
    /\ TaskUnchanged

\* a probe that takes a port without TLS for closed
after_check_ssl_resets(tk, ssl_info) ==
    [tk EXCEPT
        !.result = [@ EXCEPT !.ssl_info = ssl_info,
                             !.is_open = (ssl_info # None),
                             !.service = detect_service(tk.result.port,
                                                        tk.result.banner)],
        !.ssl_pending = None,
        !.pc = "close"]

\* test_port after check_ssl returned ssl_info: detect_service,
\* writer.close(), and the wait for wait_closed
after_check_ssl(tk, ssl_info) ==
    [tk EXCEPT
        !.result = [@ EXCEPT !.ssl_info = ssl_info,
                             !.service = detect_service(tk.result.port,
                                                        tk.result.banner)],
        !.ssl_pending = None,
        !.pc = "close"]

\* check_ssl: the TLS connection is opened (ssl_info built) or not
CheckSsl(t) ==
    /\ mainPc = "gather"
    /\ tasks[t].pc = "ssl"
    /\ \E o \in {None} \cup {Some(i) : i \in SslInfos} :
         IF o = None
         THEN Resume(t, after_check_ssl(tasks[t], None))
         ELSE Resume(t, [tasks[t] EXCEPT !.ssl_pending = o,
                                         !.open_conns = @ + 1,
                                         !.pc = "ssl_close"])
    /\ TaskUnchanged

\* check_ssl: await writer.wait_closed() of the TLS connection; an exception
\* is caught by check_ssl's `except Exception: return None`
CheckSslClose(t) ==
    /\ mainPc = "gather"
    /\ tasks[t].pc = "ssl_close"
    /\ \E o \in {None} \cup {Some(e) : e \in CloseErrors} :
         LET tk == [tasks[t] EXCEPT !.open_conns = close_connection(@)] IN
         IF o = None
         THEN Resume(t, after_check_ssl(tk, tk.ssl_pending))
         ELSE Resume(t, after_check_ssl(tk, None))
    /\ TaskUnchanged

\* await writer.wait_closed() of the first connection, then `break`; an
\* exception is raised inside the try block of the retry loop
Close(t) ==
    /\ mainPc = "gather"
    /\ tasks[t].pc = "close"
    /\ \E o \in {None} \cup {Some(e) : e \in CloseErrors} :
         LET tk == [tasks[t] EXCEPT !.open_conns = close_connection(@)] IN
         IF o = None
         THEN Resume(t, break(tk))
         ELSE Resume(t, raise(tk, o[1]))
    /\ TaskUnchanged

(* ----------------------- finalize_scan and report --------------------- *)
\* the comprehension with its filter negated
count_closed(rs) == Len(SelectSeq(rs, LAMBDA r : ~r.is_open))

\* len([r for r in self.results if r.is_open])
count_open(rs) == Len(SelectSeq(rs, LAMBDA r : r.is_open))

RECURSIVE insert_by_port(_, _)
insert_by_port(sorted, r) ==
    IF sorted = <<>> THEN <<r>>
    ELSE IF r.port < Head(sorted).port THEN <<r>> \o sorted
    ELSE <<Head(sorted)>> \o insert_by_port(Tail(sorted), r)

\* the list left in arrival order
sort_not_done(rs) == rs

\* self.results.sort(key=lambda x: x.port): stable, ascending
RECURSIVE sort_by_port(_)
sort_by_port(rs) ==
    IF rs = <<>> THEN <<>>
    ELSE insert_by_port(sort_by_port(SubSeq(rs, 1, Len(rs) - 1)), rs[Len(rs)])

\* finalize_scan's three assignments to self.scan_stats
finalized_stats(stats, rs, now) ==
    [stats EXCEPT !.end_time = Some(now),
                  !.duration = Some(now - stats.start_time[1]),
                  !.open_ports = count_open(rs)]

\* generate_report's table: one row per open result, `service or 'Unknown'`
report_rows(rs) ==
    LET open == SelectSeq(rs, LAMBDA r : r.is_open) IN
    [i \in DOMAIN open |->
        <<open[i].port, "open",
          IF open[i].service # None THEN open[i].service[1] ELSE "Unknown">>]

\* json.dump accepts None, int, str, list and dict; it raises TypeError on
\* the datetime and timedelta objects finalize_scan stores in scan_stats
json_serializable(stats) ==
    stats.start_time = None /\ stats.end_time = None /\ stats.duration = None

\* a generate_report that catches the exception of the write
report_outcome_swallowed(written) == "completed"

\* how main() ends after generate_report with an output file: an exception of
\* open() or json.dump() is not caught in generate_report, finalize_scan or
\* scan, and reaches main's `except Exception`
report_outcome(written) == IF written THEN "completed" ELSE "critical_failure"

\* a join that does not wait for the tasks
join_any(ts) == TRUE

\* asyncio.gather(*tasks) has its result: every task has returned
all_done(ts) == \A i \in DOMAIN ts : ts[i].pc = "done"

\* asyncio.run cancels the tasks that are left when main() ends; the frame
\* of a cancelled coroutine is discarded
cancel(tk) ==
    IF tk.pc \in {"done", "raised"} THEN tk
    ELSE [NewTask(tk.result.port) EXCEPT !.pc = "cancelled"]

\* scan() after `await asyncio.gather(*tasks)`: gather re-raises the first
\* exception of a task; otherwise finalize_scan and generate_report run, and
\* an exception of open() or json.dump() reaches main's `except Exception`
Gather ==
    /\ mainPc = "gather"
    /\ IF \E i \in DOMAIN tasks : tasks[i].pc = "raised"
       THEN /\ exit_status' = "critical_failure"
            /\ tasks' = [i \in DOMAIN tasks |-> cancel(tasks[i])]
            /\ UNCHANGED <<results, scan_stats, console, output_state,
                           finalize_calls>>
       ELSE /\ all_done(tasks)
            /\ \E now \in 0..MaxClock :
                 scan_stats' = finalized_stats(scan_stats, results, now)
            /\ results' = sort_by_port(results)
            /\ finalize_calls' = finalize_calls + 1
            /\ console' = Some(report_rows(results'))
            /\ UNCHANGED tasks
            /\ IF args.output = None
               THEN exit_status' = "completed" /\ UNCHANGED output_state
               ELSE \E opened \in BOOLEAN :
                      /\ exit_status' =
                            report_outcome(opened /\ json_serializable(scan_stats'))
                      /\ output_state' =
                            IF ~opened THEN output_state
                            ELSE IF json_serializable(scan_stats') THEN "written"
                            ELSE "partial"
    /\ mainPc' = "done"
    /\ UNCHANGED <<args, call, ports, semaphore, arrival>>

\* a handler of the interrupt that still reports what was gathered so far
InterruptWithPartialReport ==
    /\ mainPc # "done"
    /\ mainPc' = "done"
    /\ exit_status' = "aborted"
    /\ tasks' = [i \in DOMAIN tasks |-> cancel(tasks[i])]
    /\ finalize_calls' = finalize_calls + 1
    /\ console' = Some(report_rows(results))
    /\ UNCHANGED <<args, call, ports, results, scan_stats, semaphore,
                   output_state, arrival>>

\* SIGINT: asyncio.run cancels main() and every task; nothing after the
\* current await of main() runs
Interrupt ==
    /\ mainPc # "done"
    /\ mainPc' = "done"
    /\ exit_status' = "aborted"
    /\ tasks' = [i \in DOMAIN tasks |-> cancel(tasks[i])]
    /\ UNCHANGED <<args, call, ports, results, scan_stats, semaphore,
                   console, output_state, finalize_calls, arrival>>

(* --------------------------- specifications --------------------------- *)
TaskStep(t) ==
    /\ t \in DOMAIN tasks
    /\ \/ Acquire(t)
       \/ Connect(t)
       \/ Sleep(t)
       \/ GrabBanner(t)
       \/ CheckSsl(t)
       \/ CheckSslClose(t)
       \/ Close(t)

Run ==
    \/ Ping
    \/ Construct
    \/ ScanStart
    \/ \E t \in 1..MaxPorts : TaskStep(t)
    \/ Gather

Next == Run \/ Interrupt

Spec == Init /\ [][Next]_vars

\* A run that is not interrupted: the event loop runs every coroutine that
\* can go on, and every network operation ends (at the latest by its timeout)
LiveSpec ==
    /\ Init
    /\ [][Run]_vars
    /\ WF_vars(Ping) /\ WF_vars(Construct) /\ WF_vars(ScanStart)
    /\ WF_vars(Gather)
    /\ \A t \in 1..MaxPorts : WF_vars(TaskStep(t))

(* ------------------- detect_service called on its own ---------------- *)
\* most pieces a banner is put together from
MaxWords == 3

\* pieces of banners: protocol names in both cases, and pieces that make a
\* name only when put together
BannerWords ==
    { <<"S", "S", "H", "-", "2", ".", "0">>, <<"s", "S", "h">>,
      <<"H", "T", "T", "P", "/", "1">>, <<"h", "t">>, <<"t", "p">>,
      <<"S", "M", "T", "P">>, <<"s", "m">>, <<"2", "2", "0", " ">>, <<"s">> }

RECURSIVE BannersOf(_)
BannersOf(n) ==
    IF n = 0 THEN {<<>>}
    ELSE BannersOf(n - 1)
         \cup { b \o w : b \in BannersOf(n - 1), w \in BannerWords }

\* the ports of the calls: every key of the table and two ports without one
ServicePorts ==
    {20, 21, 22, 23, 25, 53, 80, 110, 143, 443, 3306, 3389, 5900, 8080, 65535}

ServiceInit ==
    /\ args = [target |-> "127.0.0.1", ports |-> <<LowPort>>,
               concurrency |-> 1, output |-> None]
    /\ mainPc = "ping"
    /\ exit_status = "running"
    /\ ports = <<>>
    /\ results = <<>>
    /\ scan_stats = new_scan_stats(<<>>)
    /\ semaphore = 0
    /\ tasks = <<>>
    /\ console = None
    /\ output_state = "absent"
    /\ finalize_calls = 0
    /\ arrival = <<>>
    /\ call \in [port : ServicePorts,
                 banner : {None} \cup {Some(b) : b \in BannersOf(MaxWords)},
                 returned : {FALSE},
                 service : {None}]

\* self.detect_service(port, banner) returns
DetectService ==
    /\ ~call.returned
    /\ call.port # 0
    /\ call' = [call EXCEPT !.returned = TRUE,
                            !.service = detect_service(call.port, call.banner)]
    /\ UNCHANGED <<args, mainPc, exit_status, ports, results, scan_stats,
                   semaphore, tasks, console, output_state, finalize_calls,
                   arrival>>

ServiceSpec == ServiceInit /\ [][DetectService]_vars

(* ------------------------------ properties ---------------------------- *)
\* finalize_scan has run
Finalized == finalize_calls >= 1

\* the tasks that hold a slot of the semaphore, i.e. are inside test_port
InTestPort ==
    { t \in DOMAIN tasks :
        tasks[t].pc \in {"connect", "sleep", "banner", "ssl", "ssl_close", "close"} }

\* the indices of the records of port p in the result list
RecordsOf(p) == { j \in DOMAIN results : results[j].port = p }

\* C1: after scan() has completed, the result list holds exactly one record
\* for each port of the port list, closed ports included, and nothing else.
C1_OneRecordPerPort ==
    Finalized =>
        /\ \A i \in DOMAIN ports : Cardinality(RecordsOf(ports[i])) = 1
        /\ Len(results) = Len(ports)

\* C2: with max_concurrency >= 1, at most max_concurrency probe tasks are
\* inside test_port (hold a limiter slot) in every reachable state.
C2_BoundedInFlight ==
    args.concurrency >= 1 => Cardinality(InTestPort) <= args.concurrency

\* C2 witness: the limiter is full and a further task is queued behind it
C2_Witness ==
    /\ args.concurrency >= 1
    /\ Cardinality(InTestPort) = args.concurrency
    /\ \E t \in DOMAIN tasks : tasks[t].pc = "wait"

\* C3: with max_concurrency >= 1 and fair scheduling, every queued port
\* obtains a slot and its probe completes, and the scan reaches finalize_scan.
C3_EveryPortCompletes ==
    /\ \A t \in 1..MaxPorts :
          (args.concurrency >= 1 /\ t \in DOMAIN tasks /\ tasks[t].pc = "wait")
              ~> (t \in DOMAIN tasks /\ tasks[t].pc = "done")
    /\ (args.concurrency >= 1 /\ mainPc = "gather") ~> Finalized

\* C3 witness: a scan of several ports with max_concurrency = 1 is finalized
C3_Witness ==
    /\ args.concurrency = 1
    /\ Len(tasks) >= 2
    /\ \A t \in DOMAIN tasks : tasks[t].pc = "done"
    /\ Finalized

\* C4: start_time is set before any probe task exists; finalize_scan runs at
\* most once, and end_time, duration and open_ports are set only by it, at a
\* point where every dispatched task has completed.
C4_FinalizedOnceAfterJoin ==
    /\ tasks # <<>> => scan_stats.start_time # None
    /\ finalize_calls <= 1
    /\ exit_status = "completed" => finalize_calls = 1
    /\ finalize_calls = 0 =>
          /\ scan_stats.end_time = None
          /\ scan_stats.duration = None
          /\ scan_stats.open_ports = 0
    /\ finalize_calls = 1 =>
          /\ scan_stats.end_time # None
          /\ scan_stats.duration # None
          /\ \A t \in DOMAIN tasks : tasks[t].pc = "done"

\* C4 witness: a finalized scan of several ports
C4_Witness ==
    /\ finalize_calls = 1
    /\ Len(tasks) >= 2
    /\ scan_stats.end_time # None

\* C5: test_port never raises, whatever the outcomes of the connects, the
\* banner grab, the TLS probe and the close; and when no connect attempt
\* succeeded the record it returns is closed.
C5_TestPortNeverRaises ==
    \A t \in DOMAIN tasks :
        /\ tasks[t].pc # "raised"
        /\ (tasks[t].pc = "done"
             /\ \A i \in DOMAIN tasks[t].connect_log :
                    tasks[t].connect_log[i] # "ok")
           => ~tasks[t].result.is_open

\* C5 witness: one probe returned after every connect failed, another after
\* its banner grab, TLS probe, close and second connect all failed
C5_Witness ==
    /\ \E t \in DOMAIN tasks :
          /\ tasks[t].pc = "done"
          /\ tasks[t].connect_log = <<"fail", "fail">>
          /\ ~tasks[t].result.is_open
    /\ \E t \in DOMAIN tasks :
          /\ tasks[t].pc = "done"
          /\ tasks[t].connect_log = <<"ok", "fail">>
          /\ tasks[t].result.banner = None
          /\ tasks[t].result.ssl_info = None

\* C6: within one test_port call no connect attempt of the retry loop is
\* made after the first one that succeeded.
C6_NoConnectAfterSuccess ==
    \A t \in DOMAIN tasks :
        \A i \in DOMAIN tasks[t].connect_log :
            tasks[t].connect_log[i] = "ok" => i = Len(tasks[t].connect_log)

\* C7: one test_port call makes at most max_retries connect attempts in its
\* retry loop, and if all of them fail the record it returns is closed, with
\* banner, service, ssl_info and response_time absent.
C7_BoundedRetries ==
    \A t \in DOMAIN tasks :
        /\ Len(tasks[t].connect_log) <= max_retries
        /\ (tasks[t].pc = "done"
             /\ \A i \in DOMAIN tasks[t].connect_log :
                    tasks[t].connect_log[i] = "fail")
           => /\ ~tasks[t].result.is_open
              /\ tasks[t].result.banner = None
              /\ tasks[t].result.service = None
              /\ tasks[t].result.ssl_info = None
              /\ tasks[t].result.response_time = None

\* C7 witness: a probe has returned after max_retries failed attempts
C7_Witness ==
    \E t \in DOMAIN tasks :
        /\ tasks[t].pc = "done"
        /\ Len(tasks[t].connect_log) = max_retries
        /\ \A i \in DOMAIN tasks[t].connect_log : tasks[t].connect_log[i] = "fail"
        /\ tasks[t].result = Scanresult(ports[t])

\* the targets that are neither an IP literal nor a resolvable name
Unresolvable == {"no.such.host.invalid"}

\* C8: with a target that is neither an IP literal nor a resolvable name, no
\* probe task is dispatched, no connection is attempted, no Scanresult is
\* produced and no report is generated; and once the constructor has run,
\* the run has ended with the configuration error.
C8_UnresolvedTargetNeverScanned ==
    args.target \in Unresolvable =>
        /\ mainPc \notin {"scan", "gather"}
        /\ tasks = <<>>
        /\ results = <<>>
        /\ scan_stats.start_time = None
        /\ finalize_calls = 0
        /\ console = None
        /\ output_state = "absent"
        /\ exit_status # "completed"
        /\ ports # <<>> => (mainPc = "done" /\ exit_status = "configuration_error")

\* C8 witness: the constructor has raised the configuration error
C8_Witness ==
    /\ args.target \in Unresolvable
    /\ ports # <<>>
    /\ exit_status = "configuration_error"

\* C9: after finalize_scan, scan_stats['open_ports'] is the number of records
\* of the result list whose is_open is true.
C9_OpenPortsCount ==
    Finalized =>
        scan_stats.open_ports =
            Cardinality({ j \in DOMAIN results : results[j].is_open })

\* C9 witness: a finalized scan with an open and a closed port
C9_Witness ==
    /\ Finalized
    /\ scan_stats.open_ports = 1
    /\ \E t \in DOMAIN tasks : ~tasks[t].result.is_open

\* C10: the result list generate_report gets is sorted by strictly ascending
\* port number, whatever order the probe tasks completed in.
C10_SortedReport ==
    console # None =>
        \A i, j \in DOMAIN results : i < j => results[i].port < results[j].port

\* C10 witness: a report of two results that arrived in descending port order
C10_Witness ==
    /\ console # None
    /\ Len(results) >= 2
    /\ \E i, j \in DOMAIN arrival : i < j /\ arrival[i] > arrival[j]

\* C11: when the run was interrupted while probe tasks were pending or in
\* flight, finalize_scan and generate_report have not run: the statistics
\* are not finalized, nothing was printed and no output file was written.
C11_InterruptDiscardsPartialResults ==
    (exit_status = "aborted" /\ \E t \in DOMAIN tasks : tasks[t].pc = "cancelled")
        => /\ mainPc = "done"
           /\ finalize_calls = 0
           /\ scan_stats.end_time = None
           /\ scan_stats.duration = None
           /\ scan_stats.open_ports = 0
           /\ console = None
           /\ output_state = "absent"

\* C11 witness: interrupted with one result gathered and one probe cancelled,
\* and an output path configured
C11_Witness ==
    /\ exit_status = "aborted"
    /\ args.output # None
    /\ results # <<>>
    /\ \E t \in DOMAIN tasks : tasks[t].pc = "cancelled"

\* the records of the probes that returned an open result
OpenRecords ==
    { tasks[t].result : t \in { u \in DOMAIN tasks : tasks[u].result.is_open } }

\* C12: when an output path is configured and the write of the report fails,
\* the failure reaches the caller, and the result list and the finalized
\* statistics in memory are what finalize_scan made them before the write.
C12_WriteFailureSurfaced ==
    (finalize_calls = 1 /\ args.output # None /\ output_state # "written")
        => /\ exit_status = "critical_failure"
           /\ { results[j] : j \in DOMAIN results } = OpenRecords
           /\ Len(results) = Cardinality(OpenRecords)
           /\ \A i, j \in DOMAIN results :
                 i < j => results[i].port < results[j].port
           /\ scan_stats.total_ports = Len(ports)
           /\ scan_stats.open_ports = Cardinality(OpenRecords)
           /\ scan_stats.start_time = Some(0)
           /\ scan_stats.end_time # None
           /\ scan_stats.duration = scan_stats.end_time

\* C12 witness: the write failed after the file was opened, with a result
\* in memory
C12_Witness ==
    /\ finalize_calls = 1
    /\ args.output # None
    /\ output_state = "partial"
    /\ results # <<>>
    /\ exit_status = "critical_failure"

\* C13: the ping step never blocks the scan: whatever its outcome, a run
\* that was not interrupted has constructed the scanner, and with a target
\* that validates it has started the scan.
C13_PingNeverBlocksScan ==
    (mainPc = "done" /\ exit_status # "aborted")
        => /\ ports # <<>>
           /\ args.target \notin Unresolvable => scan_stats.start_time # None

\* the capital of a letter of the protocol names
RefUpper(c) ==
    CASE c = "s" -> "S" [] c = "h" -> "H" [] c = "t" -> "T" [] c = "p" -> "P"
      [] c = "m" -> "M"

\* the text b contains the lowercase word w in some mix of cases
RefHas(b, w) ==
    \E i \in 1..Len(b) :
        /\ i + Len(w) - 1 <= Len(b)
        /\ \A k \in 1..Len(w) : b[i + k - 1] \in {w[k], RefUpper(w[k])}

\* the static table, as pairs
RefTable ==
    { <<21, "FTP">>, <<22, "SSH">>, <<23, "Telnet">>, <<25, "SMTP">>,
      <<53, "DNS">>, <<80, "HTTP">>, <<110, "POP3">>, <<143, "IMAP">>,
      <<443, "HTTPS">>, <<3306, "MySQL">>, <<3389, "RDP">>, <<5900, "VNC">>,
      <<8080, "HTTP-Proxy">> }

\* the reference classification of C14
RefService(port, banner) ==
    LET text == IF banner = None THEN <<>> ELSE banner[1] IN
    IF text # <<>> /\ RefHas(text, <<"s", "s", "h">>) THEN Some("SSH")
    ELSE IF text # <<>> /\ RefHas(text, <<"h", "t", "t", "p">>) THEN Some("HTTP")
    ELSE IF text # <<>> /\ RefHas(text, <<"s", "m", "t", "p">>) THEN Some("SMTP")
    ELSE IF \E e \in RefTable : e[1] = port
         THEN Some((CHOOSE e \in RefTable : e[1] = port)[2])
    ELSE None

\* C14: detect_service(port, banner) is the reference: SSH, HTTP or SMTP by
\* the first of "ssh", "http", "smtp" the lowercase banner contains, else the
\* table entry of the port, else nothing; a banner with "SSH-2.0" gives SSH
\* for every port.
C14_DetectServiceReference ==
    call.returned =>
        /\ call.service = RefService(call.port, call.banner)
        /\ (call.banner # None
            /\ contains(call.banner[1], <<"S", "S", "H", "-", "2", ".", "0">>))
           => call.service = Some("SSH")

\* C14 witness: a banner with all three names, "http" before "ssh" in the
\* text, on the SMTP port, classified SSH
C14_Witness ==
    /\ call.returned
    /\ call.port = 25
    /\ call.banner # None
    /\ \E w \in BannerWords :
          call.banner[1] = <<"H", "T", "T", "P", "/", "1">> \o w
                           \o <<"S", "S", "H", "-", "2", ".", "0">>
          /\ RefHas(w, <<"s", "m", "t", "p">>)
    /\ call.service = Some("SSH")

\* a connect attempt of task t has succeeded
Connected(t) ==
    \E i \in DOMAIN tasks[t].connect_log : tasks[t].connect_log[i] = "ok"

\* C15: once a connect attempt of test_port has succeeded, the record stays
\* open whatever follows: a failed banner grab or TLS handshake leaves only
\* its own field absent, and test_port still returns the record.
C15_OpenOnceConnected ==
    \A t \in DOMAIN tasks :
        Connected(t) =>
            /\ tasks[t].result.is_open
            /\ tasks[t].result.response_time # None
            /\ tasks[t].pc \notin {"raised", "wait"}
            /\ tasks[t].pc = "done" =>
                  \E j \in DOMAIN results : results[j] = tasks[t].result

\* C15 witness: a probe returned an open record after its banner grab and
\* its TLS handshake both failed
C15_Witness ==
    \E t \in DOMAIN tasks :
        /\ tasks[t].pc = "done"
        /\ tasks[t].connect_log = <<"ok">>
        /\ tasks[t].result.is_open
        /\ tasks[t].result.banner = None
        /\ tasks[t].result.ssl_info = None
        /\ \E j \in DOMAIN results : results[j] = tasks[t].result

\* C16: in the retry loop the 1-second sleep is taken after a failed connect
\* attempt exactly when the attempt failed with resource exhaustion; after
\* any other failed attempt nothing sleeps; and every sleep is followed by
\* another connect attempt for the same port.
C16_BackoffOnlyBeforeRetry ==
    \A t \in DOMAIN tasks :
        /\ tasks[t].pc = "sleep" => tasks[t].last_fail = "exhausted"
        /\ tasks[t].last_fail = "exhausted" =>
              (tasks[t].pc = "sleep" \/ tasks[t].slept)
        /\ tasks[t].last_fail = "other" =>
              (tasks[t].pc # "sleep" /\ ~tasks[t].slept)
        /\ tasks[t].slept => tasks[t].pc = "connect"

\* the step takes task t from stage `from` to stage `to`
Enters(t, from, to) ==
    /\ t \in DOMAIN tasks'
    /\ tasks[t].pc \in from
    /\ tasks'[t].pc = to

\* the step moves task t to another stage, and does not cancel it
Moves(t) ==
    /\ t \in DOMAIN tasks'
    /\ tasks'[t].pc # tasks[t].pc
    /\ tasks'[t].pc # "cancelled"

StagesInOrder(t) ==
    /\ Moves(t) /\ tasks'[t].pc = "banner" =>
          /\ Enters(t, {"connect"}, "banner")
          /\ tasks'[t].connect_log = Append(tasks[t].connect_log, "ok")
    /\ Moves(t) /\ tasks'[t].pc = "ssl" => Enters(t, {"banner"}, "ssl")
    /\ Moves(t) /\ tasks'[t].pc = "ssl_close" => Enters(t, {"ssl"}, "ssl_close")
    /\ Moves(t) /\ tasks'[t].pc = "close" =>
          /\ Enters(t, {"ssl", "ssl_close"}, "close")
          /\ tasks'[t].result.service =
                detect_service(tasks[t].result.port, tasks[t].result.banner)
    /\ Moves(t) /\ tasks[t].pc = "close" =>
          tasks'[t].pc \in {"done", "raised", "connect"}
    /\ t \in DOMAIN tasks' /\ tasks'[t].pc # "cancelled" =>
          /\ tasks'[t].result.banner # tasks[t].result.banner =>
                tasks[t].pc = "banner"
          /\ tasks'[t].result.ssl_info # tasks[t].result.ssl_info =>
                tasks[t].pc \in {"ssl", "ssl_close"}
          /\ tasks'[t].result.service # tasks[t].result.service =>
                tasks'[t].pc = "close"

\* C17: within one call of test_port the stages run in the order connect,
\* banner grab, TLS probe, service classification, close of the first
\* connection; the banner grab and the TLS probe start only after a connect
\* attempt for the port has succeeded, and never for a port all of whose
\* connect attempts failed.
C17_StagesInOrder ==
    /\ [][\A t \in DOMAIN tasks : StagesInOrder(t)]_vars
    /\ [](\A t \in DOMAIN tasks :
            /\ tasks[t].pc \in {"banner", "ssl", "ssl_close", "close"} =>
                  Connected(t)
            /\ ~Connected(t) =>
                  /\ tasks[t].result.banner = None
                  /\ tasks[t].result.ssl_info = None
                  /\ tasks[t].result.service = None)

\* one port went through every stage after its first connect, and the other
\* used up its attempts without a connection
C17_Witness ==
    \E t, u \in DOMAIN tasks :
        /\ tasks[t].pc = "done"
        /\ tasks[t].connect_log = <<"ok">>
        /\ tasks[t].result.banner # None
        /\ tasks[t].result.ssl_info # None
        /\ tasks[t].result.service # None
        /\ tasks[u].pc = "done"
        /\ Len(tasks[u].connect_log) = max_retries
        /\ ~Connected(u)

\* the step appends to the result list the record task t has just returned
AppendsOwn(t) ==
    /\ tasks[t].pc # "done"
    /\ tasks'[t].pc = "done"
    /\ tasks'[t].result.port = ports[t]
    /\ tasks'[t].result.is_open
    /\ results' = Append(results, tasks'[t].result)

\* the step leaves in the list the records it held, in some order
KeepsRecords ==
    /\ Len(results') = Len(results)
    /\ \A j \in DOMAIN results : \E k \in DOMAIN results' : results'[k] = results[j]

\* C18: under every interleaving of the probe tasks each task appends only
\* its own record to the shared result list and changes no record of another
\* task, so that at finalize every port whose probe returned is_open = true
\* is in the list exactly once, with the fields that probe produced.
C18_ResultCollectionSafe ==
    /\ [][/\ KeepsRecords \/ \E t \in DOMAIN tasks : AppendsOwn(t)
          /\ mainPc' = "gather" =>
                \A t, u \in DOMAIN tasks :
                    tasks'[t] # tasks[t] /\ tasks'[u] # tasks[u] => t = u]_vars
    /\ [](\A t \in DOMAIN tasks :
            tasks[t].pc = "done" =>
                IF tasks[t].result.is_open
                THEN /\ Cardinality(RecordsOf(ports[t])) = 1
                     /\ \A j \in RecordsOf(ports[t]) :
                            results[j] = tasks[t].result
                ELSE RecordsOf(ports[t]) = {})
    /\ [](\A j \in DOMAIN results :
            \E u \in DOMAIN tasks :
                tasks[u].pc = "done" /\ results[j] = tasks[u].result)

\* two open ports whose probes returned against the order of the port list,
\* after finalize
C18_Witness ==
    /\ Finalized
    /\ Len(results) = 2
    /\ Len(arrival) = 2
    /\ arrival[1] > arrival[2]
    /\ \A t \in DOMAIN tasks :
          \E j \in DOMAIN results : results[j] = tasks[t].result

\* the connections open in the tasks ts
RECURSIVE open_connections(_)
open_connections(ts) ==
    IF ts = <<>> THEN 0
    ELSE ts[1].open_conns + open_connections(Tail(ts))

C20_ZeroConcurrencyHangs ==
    args.concurrency = 0 /\ tasks # <<>> =>
        /\ mainPc = "gather"
        /\ exit_status = "running"
        /\ semaphore = 0
        /\ finalize_calls = 0
        /\ console = None
        /\ \A t \in DOMAIN tasks :
              tasks[t].pc = "wait" /\ tasks[t].connect_log = <<>>

\* the scan has started with no slot in the limiter and every port waiting
C20_Witness ==
    /\ args.concurrency = 0
    /\ mainPc = "gather"
    /\ Len(tasks) = Len(ports)
    /\ Len(tasks) >= 2
====
